---- MODULE Spec2Model ----
(***************************************************************************)
(* Model of arkctl/v1/cmd/deploy/deploy.go: the deploy pipeline            *)
(* [execMavenBuild, execParseBizModel, execUnInstall, execInstall] run by  *)
(* executeDeploy over one shared contextutil.Context.                      *)
(*                                                                         *)
(* Strings are sequences of tokens, so that prefixing ("file://" + path)   *)
(* and strings.HasSuffix are computed on the value and not assumed.        *)
(* The subprocess runner (cmdutil), the parser (ark.ParseBizModel) and the *)
(* module-runtime service (ark.Service) live outside deploy.go; they are   *)
(* modelled at their interface as the specification describes them.        *)
(* The directory walk is modelled by the sequence of entries in the order  *)
(* filepath.Walk visits them; every entry can be lstat'ed.                 *)
(***************************************************************************)
EXTENDS Integers, Sequences, FiniteSets, TLC

VARIABLES
    buildFlag,          \* --build value (deploy.go:37)
    bundleFlag,         \* --bundle value (deploy.go:38)
    portFlag,           \* --port value (deploy.go:39)
    podFlag,            \* --pod value (deploy.go:40)
    buildChanged,       \* cmd.Flags().Changed("build")
    bundleChanged,      \* cmd.Flags().Changed("bundle")
    doLocalBuildBundle, \* deploy.go:42
    pc,                 \* position of the pipeline thread
    idx,                \* index of the todo being run by executeDeploy
    status,             \* "Running", "Succeeded", "Aborted", "Panicked"
    abortedAt,          \* stage index of the failed todo, -1 if none
    ctx,                \* contextutil.Context key/value store
    puts,               \* sequence of keys written with ctx.Put
    proc,               \* build subprocess: "none","notstarted","running","exited","killed"
    toEmit,             \* output lines the subprocess has still to write
    emitted,            \* output lines written so far
    outq,               \* lines in the runner's output channel
    outClosed,          \* output channel closed
    sig,                \* completion signal: <<>> not fired, <<err>> fired
    exitErr,            \* value of mvn.GetExitError()
    launchErr,          \* value returned by mvn.Exec()
    execCount,          \* number of mvn.Exec() invocations
    waited,             \* the pipeline thread has blocked on <-mvn.Wait()
    drain,              \* output goroutine: "none","idle","holding","done"
    printed,            \* lines printed by the output goroutine
    cancelled,          \* the context's cancellation token has fired
    trace,              \* stage start / return events, in order
    parsed,             \* locators handed to ark.ParseBizModel, in order
    calls,              \* service calls, in order
    searched,           \* filepath.Walk was performed
    walked              \* the entries the walk visited, in order

flagVars == <<buildFlag, bundleFlag, portFlag, podFlag, buildChanged,
              bundleChanged, doLocalBuildBundle>>
drvVars  == <<pc, idx, status, abortedAt, trace>>
ctxVars  == <<ctx, puts>>
runVars  == <<proc, toEmit, emitted, outq, outClosed, sig, exitErr,
              launchErr, execCount>>
drnVars  == <<drain, printed>>
resVars  == <<parsed, searched, walked>>

vars == <<flagVars, drvVars, ctxVars, runVars, waited, drnVars, cancelled,
          resVars, calls>>

----------------------------------------------------------------------------
(* Bounds *)

MaxLines == 2       \* output lines a build subprocess writes at most
MaxFiles == 3       \* entries visited by one directory walk at most
ChanCap  == 1       \* lines the output channel holds before the writer blocks

----------------------------------------------------------------------------
(* Program constants *)

ctxKeyArkService == "ark.Service"
ctxKeyBizModel == "ark.BizModel"
ctxKeyArkContainerRuntimeInfo == "ark.ContainerRuntimeInfo"

CtxKeys == {ctxKeyArkService, ctxKeyBizModel, ctxKeyArkContainerRuntimeInfo}

ArkBizSuffix == <<"-ark-biz.jar">>
FileScheme == <<"file://">>
DefaultPort == 1238

ArkContainerRunTypeLocal == "local"
ArkContainerRunTypeK8s == "k8s"

Todos == <<"execMavenBuild", "execParseBizModel", "execUnInstall", "execInstall">>

----------------------------------------------------------------------------
(* Input domains *)

EmptyStr == <<>>
Cwd == <<"/cwd">>

BuildDirs == {<<"/tmp/proj">>}
BundleValues == { <<"/tmp/", "app", "-ark-biz.jar">>,
                  <<"file://", "/tmp/", "app", "-ark-biz.jar">>,
                  <<"http://", "host/", "app", "-ark-biz.jar">> }
Pods == {EmptyStr, <<"ns/name">>}
Ports == {DefaultPort, 8080}

UrlSchemes == {"file://", "http://", "https://"}

BizModels == { [BizName |-> "app", BizVersion |-> "1.0"],
               [BizName |-> "app", BizVersion |-> "2.0"] }

NilErr == "nil"

----------------------------------------------------------------------------
(* strings *)

HasSuffix(s, suf) ==
    /\ Len(s) >= Len(suf)
    /\ SubSeq(s, Len(s) - Len(suf) + 1, Len(s)) = suf

\* fileutil.FileUrl(bundlePath): a conversion of the string type, the value
\* is handed on as it is
FileUrl(s) == s

----------------------------------------------------------------------------
(* contextutil.Context *)

EmptyCtx == [k \in CtxKeys |-> {}]

Put(c, k, v) == [c EXCEPT ![k] = {v}]

Has(c, k) == c[k] # {}

Value(c, k) == CHOOSE v \in c[k] : TRUE

----------------------------------------------------------------------------
(* construction *)

Init ==
    /\ bundleChanged \in BOOLEAN
    /\ buildChanged \in BOOLEAN
    /\ buildFlag \in (IF buildChanged THEN BuildDirs \cup {EmptyStr} ELSE {EmptyStr})
    /\ bundleFlag \in (IF bundleChanged THEN BundleValues ELSE {EmptyStr})
    /\ portFlag \in Ports
    /\ podFlag \in Pods
    /\ doLocalBuildBundle = FALSE
    /\ pc = "args"
    /\ idx = 0
    /\ status = "Running"
    /\ abortedAt = -1
    /\ ctx = EmptyCtx
    /\ puts = <<>>
    /\ proc = "none"
    /\ toEmit = 0
    /\ emitted = 0
    /\ outq = <<>>
    /\ outClosed = FALSE
    /\ sig = <<>>
    /\ exitErr = NilErr
    /\ launchErr = NilErr
    /\ execCount = 0
    /\ waited = FALSE
    /\ drain = "none"
    /\ printed = 0
    /\ cancelled = FALSE
    /\ trace = <<>>
    /\ parsed = <<>>
    /\ calls = <<>>
    /\ searched = FALSE
    /\ walked = <<>>

----------------------------------------------------------------------------
(* DeployCommand.Args, deploy.go:79-89 *)

\* variant: the build is switched off by --build instead of --bundle
ArgsDoLocalBuild_mut(bundleCh) == ~buildChanged

ArgsDoLocalBuild(bundleCh) == ~bundleCh

ArgsBuildDir(doBuild, buildCh, dir) ==
    IF doBuild /\ ~buildCh THEN Cwd ELSE dir

Args ==
    /\ pc = "args"
    /\ doLocalBuildBundle' = ArgsDoLocalBuild(bundleChanged)
    /\ buildFlag' = ArgsBuildDir(ArgsDoLocalBuild(bundleChanged), buildChanged, buildFlag)
    /\ pc' = "genctx"
    /\ UNCHANGED <<bundleFlag, portFlag, podFlag, buildChanged, bundleChanged,
                   idx, status, abortedAt, trace, ctxVars, runVars, waited,
                   drnVars, cancelled, resVars, calls>>

----------------------------------------------------------------------------
(* generateContext, deploy.go:219-238 *)

\* variant: the run type is not switched for a pod target
RuntimeInfo_mut(pod, port) ==
    [RunType |-> ArkContainerRunTypeLocal, Coordinate |-> pod, Port |-> port]

RuntimeInfo(pod, port) ==
    IF pod # EmptyStr
    THEN [RunType |-> ArkContainerRunTypeK8s, Coordinate |-> pod, Port |-> port]
    ELSE [RunType |-> ArkContainerRunTypeLocal, Coordinate |-> EmptyStr, Port |-> port]

StartEv(i) == [ev |-> "start", stage |-> i, ok |-> TRUE]
RetEv(i, ok) == [ev |-> "ret", stage |-> i, ok |-> ok]

\* variant: the todos list holds execInstall before execUnInstall
StagePc_mut(i) ==
    CASE i = 0 -> "build_exec"
      [] i = 1 -> "resolve"
      [] i = 2 -> "install"
      [] i = 3 -> "uninstall"

StagePc(i) ==
    CASE i = 0 -> "build_exec"
      [] i = 1 -> "resolve"
      [] i = 2 -> "uninstall"
      [] i = 3 -> "install"

GenerateContext ==
    /\ pc = "genctx"
    /\ ctx' = Put(Put(EmptyCtx, ctxKeyArkService, "arkService"),
                  ctxKeyArkContainerRuntimeInfo, RuntimeInfo(podFlag, portFlag))
    /\ puts' = puts \o <<ctxKeyArkService, ctxKeyArkContainerRuntimeInfo>>
    \* executeDeploy enters its loop and calls todos[0]
    /\ idx' = 0
    /\ pc' = StagePc(0)
    /\ trace' = Append(trace, StartEv(0))
    /\ UNCHANGED <<flagVars, status, abortedAt, runVars, waited, drnVars,
                   cancelled, resVars, calls>>

----------------------------------------------------------------------------
(* executeDeploy, deploy.go:245-261: the loop over todos *)

\* variant: the loop ignores the result of the todo
LoopContinues_mut(ok) == TRUE

\* deploy.go:256: the loop goes on only when the todo returned true
LoopContinues(ok) == ok

\* variant: the loop steps over a todo
NextTodo_mut(i) == i + 2

\* the index of the todo that follows todo i in the range loop
NextTodo(i) == i + 1

\* todo i returns ok to executeDeploy, which aborts, calls the next todo or
\* falls off the end of the list
TodoReturn(i, ok) ==
    IF ~LoopContinues(ok)
    THEN /\ status' = "Aborted"
         /\ abortedAt' = i
         /\ pc' = "done"
         /\ idx' = i
         /\ trace' = Append(trace, RetEv(i, ok))
    ELSE IF NextTodo(i) < Len(Todos)
    THEN /\ status' = status
         /\ abortedAt' = abortedAt
         /\ idx' = NextTodo(i)
         /\ pc' = StagePc(NextTodo(i))
         /\ trace' = trace \o <<RetEv(i, ok), StartEv(NextTodo(i))>>
    ELSE /\ status' = "Succeeded"
         /\ abortedAt' = abortedAt
         /\ pc' = "done"
         /\ idx' = i
         /\ trace' = Append(trace, RetEv(i, ok))

----------------------------------------------------------------------------
(* execMavenBuild, deploy.go:93-127 *)

\* deploy.go:95-108.  When doLocalBuildBundle is false the function logs
\* "build bundle skipped!" and goes on; when mvn.Exec() fails it logs the
\* error and goes on.
BuildExec ==
    /\ pc = "build_exec"
    /\ execCount' = execCount + 1
    /\ \E ok \in BOOLEAN, n \in 0..MaxLines :
          \* a command cannot be started under a cancelled context
          /\ ok => ~cancelled
          /\ IF ok
             THEN /\ proc' = "running"
                  /\ toEmit' = n
                  /\ launchErr' = NilErr
             ELSE /\ proc' = "notstarted"
                  /\ toEmit' = 0
                  /\ launchErr' = "launch"
    /\ pc' = "build_spawn"
    /\ UNCHANGED <<flagVars, idx, status, abortedAt, trace, ctxVars, emitted,
                   outq, outClosed, sig, exitErr, waited, drnVars, cancelled,
                   resVars, calls>>

\* deploy.go:110-116: start the output goroutine, then block on <-mvn.Wait()
BuildSpawn ==
    /\ pc = "build_spawn"
    /\ drain' = "idle"
    /\ waited' = TRUE
    /\ pc' = "build_wait"
    /\ UNCHANGED <<flagVars, idx, status, abortedAt, trace, ctxVars, runVars,
                   printed, cancelled, resVars, calls>>

\* variant: the received completion error is dropped
BuildWaitPasses_mut(err) == TRUE

\* deploy.go:116: the received completion error lets the stage go on
BuildWaitPasses(err) == err = NilErr

\* variant: the stage does not receive from mvn.Wait() and goes on
BuildWait_mut ==
    /\ pc = "build_wait"
    /\ pc' = "build_exit"
    /\ UNCHANGED <<idx, status, abortedAt, trace>>
    /\ UNCHANGED <<flagVars, ctxVars, runVars, waited, drnVars, cancelled,
                   resVars, calls>>

\* deploy.go:116-119
BuildWait ==
    /\ pc = "build_wait"
    /\ sig # <<>>
    /\ IF BuildWaitPasses(sig[1])
       THEN /\ pc' = "build_exit"
            /\ UNCHANGED <<idx, status, abortedAt, trace>>
       ELSE TodoReturn(0, FALSE)
    /\ UNCHANGED <<flagVars, ctxVars, runVars, waited, drnVars, cancelled,
                   resVars, calls>>

\* variant: the test of the exit error is inverted
BuildExitPasses_mut(err) == err # NilErr

\* deploy.go:121: the exit error lets the stage succeed
BuildExitPasses(err) == err = NilErr

\* deploy.go:121-126
BuildExit ==
    /\ pc = "build_exit"
    /\ TodoReturn(0, BuildExitPasses(exitErr))
    /\ UNCHANGED <<flagVars, ctxVars, runVars, waited, drnVars, cancelled,
                   resVars, calls>>

\* deploy.go:110-114, the goroutine: receive one line from mvn.Output()
DrainRecv ==
    /\ drain = "idle"
    /\ outq # <<>>
    /\ drain' = "holding"
    /\ outq' = Tail(outq)
    /\ UNCHANGED <<flagVars, drvVars, ctxVars, proc, toEmit, emitted, outClosed,
                   sig, exitErr, launchErr, execCount, waited, printed,
                   cancelled, resVars, calls>>

\* fmt.Println(line)
DrainPrint ==
    /\ drain = "holding"
    /\ printed' = printed + 1
    /\ drain' = "idle"
    /\ UNCHANGED <<flagVars, drvVars, ctxVars, runVars, waited, cancelled,
                   resVars, calls>>

\* the range loop ends when the channel is closed and empty
DrainEnd ==
    /\ drain = "idle"
    /\ outq = <<>>
    /\ outClosed
    /\ drain' = "done"
    /\ UNCHANGED <<flagVars, drvVars, ctxVars, runVars, waited, printed,
                   cancelled, resVars, calls>>

----------------------------------------------------------------------------
(* the subprocess runner (cmdutil) and the cancellation token *)

\* the subprocess writes one line of output
ProcEmit ==
    /\ proc = "running"
    /\ toEmit > 0
    /\ Len(outq) < ChanCap
    /\ outq' = Append(outq, emitted + 1)
    /\ emitted' = emitted + 1
    /\ toEmit' = toEmit - 1
    /\ UNCHANGED <<flagVars, drvVars, ctxVars, proc, outClosed, sig, exitErr,
                   launchErr, execCount, waited, drnVars, cancelled, resVars,
                   calls>>

\* the subprocess exits by itself with status 0 or 1
ProcExit ==
    /\ proc = "running"
    /\ toEmit = 0
    /\ \E code \in {0, 1} :
          exitErr' = IF code = 0 THEN NilErr ELSE "exit status 1"
    /\ proc' = "exited"
    /\ UNCHANGED <<flagVars, drvVars, ctxVars, toEmit, emitted, outq, outClosed,
                   sig, launchErr, execCount, waited, drnVars, cancelled,
                   resVars, calls>>

\* error carried by the completion signal
CompletionErr(p, e) == IF p = "killed" THEN "cancel" ELSE e

\* once the process has ended and its output has been taken, the output
\* channel is closed and the single-shot completion signal fires
RunnerComplete ==
    /\ proc \in {"exited", "killed"}
    /\ sig = <<>>
    /\ outq = <<>>
    /\ outClosed' = TRUE
    /\ sig' = <<CompletionErr(proc, exitErr)>>
    /\ UNCHANGED <<flagVars, drvVars, ctxVars, proc, toEmit, emitted, outq,
                   exitErr, launchErr, execCount, waited, drnVars, cancelled,
                   resVars, calls>>

\* the cancellation token fires; a running subprocess is killed
Cancel ==
    /\ ~cancelled
    /\ status = "Running"
    /\ pc \notin {"args", "genctx"}
    /\ cancelled' = TRUE
    /\ IF proc = "running"
       THEN /\ proc' = "killed"
            /\ toEmit' = 0
            /\ exitErr' \in {NilErr, "signal: killed"}
       ELSE UNCHANGED <<proc, toEmit, exitErr>>
    /\ UNCHANGED <<flagVars, drvVars, ctxVars, emitted, outq, outClosed, sig,
                   launchErr, execCount, waited, drnVars, resVars, calls>>

----------------------------------------------------------------------------
(* execParseBizModel, deploy.go:129-164 *)

\* entries a directory walk can visit: regular files and directories
EntryKinds ==
    { [name |-> <<"app", "-ark-biz.jar">>, isDir |-> FALSE],
      [name |-> <<"lib", "-ark-biz.jar">>, isDir |-> FALSE],
      [name |-> <<"pom", ".xml">>,         isDir |-> FALSE],
      [name |-> <<"old", "-ark-biz.jar">>, isDir |-> TRUE] }

\* the entries of a build directory in the order filepath.Walk visits them
Trees ==
    { t \in UNION { [1..n -> EntryKinds] : n \in 0..MaxFiles } :
        \A i, j \in DOMAIN t : i # j => t[i] # t[j] }

EntryPath(dir, e) == dir \o <<"/">> \o e.name

\* variant: bundlePath starts from the build directory
InitialBundlePath_mut(flag) == buildFlag

\* deploy.go:134: bundlePath := bundleFlag
InitialBundlePath(flag) == flag

\* deploy.go:136-139
SearchDir(dir) == IF dir = EmptyStr THEN Cwd ELSE dir

\* variant: the walk function does not test info.IsDir()
WalkMatches_mut(e) == HasSuffix(e.name, ArkBizSuffix)

\* deploy.go:142: the walk function takes this entry as the bundle
WalkMatches(e) == ~e.isDir /\ HasSuffix(e.name, ArkBizSuffix)

\* variant: the walk keeps the first match instead of overwriting it
RECURSIVE WalkFrom_mut(_, _, _, _)
WalkFrom_mut(t, i, dir, bundlePath) ==
    IF i > Len(t)
    THEN bundlePath
    ELSE WalkFrom_mut(t, i + 1, dir,
                      IF ~t[i].isDir /\ HasSuffix(t[i].name, ArkBizSuffix)
                         /\ ~HasSuffix(bundlePath, ArkBizSuffix)
                      THEN dir \o <<"/">> \o t[i].name ELSE bundlePath)

\* deploy.go:141-146: bundlePath after the entries t[i..] have been visited
RECURSIVE WalkFrom(_, _, _, _)
WalkFrom(t, i, dir, bundlePath) ==
    IF i > Len(t)
    THEN bundlePath
    ELSE WalkFrom(t, i + 1, dir,
                  IF WalkMatches(t[i]) THEN EntryPath(dir, t[i]) ELSE bundlePath)

\* deploy.go:148: the search result is accepted
FoundBundle(bundlePath) == HasSuffix(bundlePath, ArkBizSuffix)

\* deploy.go:152
BuiltLocator(bundlePath) == FileScheme \o bundlePath

\* variant: the stage returns success without ctx.Put
ParseAndStore_noput(bundlePath) ==
    /\ parsed' = Append(parsed, FileUrl(bundlePath))
    /\ UNCHANGED ctxVars
    /\ \E ok \in BOOLEAN : TodoReturn(1, ok)

\* variant: the parse result is stored before the error is tested
ParseAndStore_putfirst(bundlePath) ==
    /\ parsed' = Append(parsed, FileUrl(bundlePath))
    /\ \E biz \in BizModels :
          /\ ctx' = Put(ctx, ctxKeyBizModel, biz)
          /\ puts' = Append(puts, ctxKeyBizModel)
    /\ \E ok \in BOOLEAN : TodoReturn(1, ok)

\* deploy.go:155-163: hand the locator to the parser, store the descriptor
ParseAndStore(bundlePath) ==
    /\ parsed' = Append(parsed, FileUrl(bundlePath))
    /\ \/ \E biz \in BizModels :
             /\ ctx' = Put(ctx, ctxKeyBizModel, biz)
             /\ puts' = Append(puts, ctxKeyBizModel)
             /\ TodoReturn(1, TRUE)
       \/ /\ UNCHANGED ctxVars
          /\ TodoReturn(1, FALSE)

ExecParseBizModel ==
    /\ pc = "resolve"
    /\ IF doLocalBuildBundle
       THEN \E t \in Trees :
              LET found == WalkFrom(t, 1, SearchDir(buildFlag), InitialBundlePath(bundleFlag)) IN
              /\ searched' = TRUE
              /\ walked' = t
              /\ IF ~FoundBundle(found)
                 THEN /\ TodoReturn(1, FALSE)
                      /\ UNCHANGED <<parsed, ctxVars>>
                 ELSE ParseAndStore(BuiltLocator(found))
       ELSE /\ UNCHANGED <<searched, walked>>
            /\ ParseAndStore(InitialBundlePath(bundleFlag))
    /\ UNCHANGED <<flagVars, runVars, waited, drnVars, cancelled, calls>>

----------------------------------------------------------------------------
(* execUnInstall, deploy.go:167-191, and execInstall, deploy.go:194-217 *)

\* deploy.go:169-171 and 196-198: every ctx.Value(key).(T) finds its value
KeysPresent(c) == \A k \in CtxKeys : Has(c, k)

\* variant: the request carries a fresh Local target instead of the stored one
Request_mut(op, c) ==
    [op |-> op,
     BizModel |-> Value(c, ctxKeyBizModel),
     TargetContainer |-> [RunType |-> ArkContainerRunTypeLocal,
                          Coordinate |-> EmptyStr,
                          Port |-> DefaultPort]]

\* the request built from the context, deploy.go:181-184 and 208-211
Request(op, c) ==
    [op |-> op,
     BizModel |-> Value(c, ctxKeyBizModel),
     TargetContainer |-> Value(c, ctxKeyArkContainerRuntimeInfo)]

\* variant: a failed service call is tried a second time
ServiceStage_mut(i, op) ==
    \E ok \in BOOLEAN :
        /\ calls' = (IF ok THEN Append(calls, Request(op, ctx))
                     ELSE calls \o <<Request(op, ctx), Request(op, ctx)>>)
        /\ TodoReturn(i, ok)

ServiceStage(i, op) ==
    IF ~KeysPresent(ctx)
    THEN /\ status' = "Panicked"
         /\ pc' = "done"
         /\ UNCHANGED <<idx, abortedAt, trace, calls>>
    ELSE /\ calls' = Append(calls, Request(op, ctx))
         /\ \E ok \in BOOLEAN : TodoReturn(i, ok)

ExecUnInstall ==
    /\ pc = "uninstall"
    /\ ServiceStage(2, "UnInstallBiz")
    /\ UNCHANGED <<flagVars, ctxVars, runVars, waited, drnVars, cancelled,
                   resVars>>

ExecInstall ==
    /\ pc = "install"
    /\ ServiceStage(3, "InstallBiz")
    /\ UNCHANGED <<flagVars, ctxVars, runVars, waited, drnVars, cancelled,
                   resVars>>

----------------------------------------------------------------------------
(* specifications *)

Pipeline ==
    \/ Args
    \/ GenerateContext
    \/ BuildExec
    \/ BuildSpawn
    \/ BuildWait
    \/ BuildExit
    \/ ExecParseBizModel
    \/ ExecUnInstall
    \/ ExecInstall

Drainer ==
    \/ DrainRecv
    \/ DrainPrint
    \/ DrainEnd

Next ==
    \/ Args
    \/ GenerateContext
    \/ BuildExec
    \/ BuildSpawn
    \/ BuildWait
    \/ BuildExit
    \/ ExecParseBizModel
    \/ ExecUnInstall
    \/ ExecInstall
    \/ DrainRecv
    \/ DrainPrint
    \/ DrainEnd
    \/ ProcEmit
    \/ ProcExit
    \/ RunnerComplete
    \/ Cancel

Spec == Init /\ [][Next]_vars

\* the pipeline thread and the output goroutine are scheduled, and the runner
\* delivers the completion signal of a process that has ended
LiveSpec ==
    /\ Spec
    /\ WF_vars(Pipeline)
    /\ WF_vars(Drainer)
    /\ WF_vars(RunnerComplete)

\* in addition a launched subprocess writes its output and exits
TermSpec ==
    /\ LiveSpec
    /\ WF_vars(ProcEmit)
    /\ WF_vars(ProcExit)

----------------------------------------------------------------------------
(* properties *)

RetIdx == { j \in 1..Len(trace) : trace[j].ev = "ret" }
StartIdx == { j \in 1..Len(trace) : trace[j].ev = "start" }
Returned(i, ok) == \E j \in RetIdx : trace[j].stage = i /\ trace[j].ok = ok
Started(i) == \E j \in StartIdx : trace[j].stage = i
StagePcs(i) ==
    CASE i = 0 -> {"build_exec", "build_spawn", "build_wait", "build_exit"}
      [] i = 1 -> {"resolve"}
      [] i = 2 -> {"uninstall"}
      [] i = 3 -> {"install"}

\* C1: fail-fast.  Once a stage has returned failure no later stage is
\* started, the pipeline thread executes no stage code, and the service calls
\* that belong to later stages have not been made: none after a failed Build
\* or Resolve, no InstallBiz after a failed Uninstall.
C1_FailFast ==
    \A j \in RetIdx :
        ~trace[j].ok =>
            /\ \A k \in StartIdx : k < j
            /\ \A i \in 0..3 : i > trace[j].stage => ~Started(i)
            /\ pc = "done"
            /\ (trace[j].stage <= 1 => calls = <<>>)
            /\ (trace[j].stage = 2 => \A c \in 1..Len(calls) : calls[c].op # "InstallBiz")

\* Resolve has returned failure after a successful Build
C1_Witness ==
    /\ Returned(0, TRUE)
    /\ Returned(1, FALSE)
    /\ status = "Aborted"

\* C2: build-skip (the claim as stated).  When a bundle was supplied the
\* build command is never started, its output is never drained, its
\* completion signal is never awaited, and the Build stage returns success.
C2_BuildSkip ==
    (pc # "args" /\ ~doLocalBuildBundle) =>
        /\ execCount = 0
        /\ proc = "none"
        /\ drain = "none"
        /\ ~waited
        /\ ~Returned(0, FALSE)

\* C3: stage ordering.  The stage events are start 0, return 0, start 1,
\* return 1, ... : stages start in the order 0,1,2,3 without a gap or a
\* repetition, stage i+1 starts right after stage i returned success, and the
\* pipeline thread is inside the one stage that has started and not returned.
C3_StageOrder ==
    /\ Len(trace) <= 2 * Len(Todos)
    /\ \A j \in 1..Len(trace) :
          /\ trace[j].stage = (j - 1) \div 2
          /\ trace[j].ev = (IF j % 2 = 1 THEN "start" ELSE "ret")
          /\ (j % 2 = 1 /\ j > 1) => trace[j - 1].ok
    /\ IF Len(trace) % 2 = 1
       THEN pc \in StagePcs((Len(trace) - 1) \div 2)
       ELSE pc \in {"args", "genctx", "done"}

\* all four stages have started and returned
C3_Witness ==
    /\ Len(trace) = 2 * Len(Todos)
    /\ \A i \in 0..3 : Started(i)

\* C4: launch failure is terminal (the claim as stated).  When mvn.Exec()
\* returned an error the Build stage has returned failure, the pipeline is
\* Aborted at stage 0, no output goroutine was started and the completion
\* signal was not awaited.
C4_LaunchFailureTerminal ==
    launchErr # NilErr =>
        /\ status = "Aborted"
        /\ abortedAt = 0
        /\ drain = "none"
        /\ ~waited
        /\ \A i \in 1..3 : ~Started(i)

\* C5: build result after launch.  When the subprocess was started and the
\* Build stage has returned, the completion signal had fired, the stage
\* returned success exactly when the signal carried no error and
\* GetExitError reports none, and a failure aborted the pipeline at stage 0.
C5_BuildResult ==
    \A j \in RetIdx :
        (trace[j].stage = 0 /\ launchErr = NilErr) =>
            /\ sig # <<>>
            /\ trace[j].ok <=> (sig = <<NilErr>> /\ exitErr = NilErr)
            /\ ~trace[j].ok => (status = "Aborted" /\ abortedAt = 0)

\* the subprocess exited with status 1 and the Build stage returned failure
C5_Witness ==
    /\ proc = "exited"
    /\ exitErr # NilErr
    /\ Returned(0, FALSE)
    /\ abortedAt = 0

\* C6: cancellation does not hang the pipeline.  Once the running subprocess
\* has been killed by the cancellation, the completion signal fires with the
\* cancellation error and the pipeline reaches Aborted at stage 0.
C6_CancelNoHang ==
    (proc = "killed") ~>
        (sig = <<"cancel">> /\ status = "Aborted" /\ abortedAt = 0 /\ pc = "done")

\* the subprocess was killed and the pipeline has aborted at the Build stage
C6_Witness ==
    /\ proc = "killed"
    /\ cancelled
    /\ sig = <<"cancel">>
    /\ Returned(0, FALSE)
    /\ status = "Aborted"

\* regular files of the walked directory whose name ends with -ark-biz.jar
ArkBizFiles ==
    { i \in 1..Len(walked) :
        /\ walked[i].isDir = FALSE
        /\ walked[i].name[Len(walked[i].name)] = "-ark-biz.jar" }

WalkedDir == IF buildFlag = <<>> THEN Cwd ELSE buildFlag

\* C7: resolver with zero or one match.  After a search that met no
\* matching file, Resolve has returned failure, the parser was not called, no
\* module descriptor is stored and the pipeline is Aborted at stage 1; after a
\* search that met exactly one, the locator handed to the parser is file://
\* followed by the path of that file.
C7_Resolver ==
    searched =>
        /\ ArkBizFiles = {} =>
              /\ parsed = <<>>
              /\ ctx[ctxKeyBizModel] = {}
              /\ Returned(1, FALSE)
              /\ status = "Aborted"
              /\ abortedAt = 1
        /\ \A i \in ArkBizFiles :
              ArkBizFiles = {i} =>
                 parsed = << <<"file://">> \o WalkedDir \o <<"/">> \o walked[i].name >>

\* one matching file among two that do not match
C7_Witness ==
    /\ searched
    /\ Len(walked) = 3
    /\ Cardinality(ArkBizFiles) = 1
    /\ Len(parsed) = 1

\* C8: locator normalization (the claim as stated).  Every string handed to
\* ark.ParseBizModel starts with a URL scheme.
C8_LocatorUrlShaped ==
    \A i \in 1..Len(parsed) :
        /\ Len(parsed[i]) > 0
        /\ parsed[i][1] \in UrlSchemes

\* C9: target selection.  After generateContext the context holds exactly
\* one runtime-target descriptor: the Kubernetes variant with the pod
\* coordinate and the port when --pod is not empty, else the Local variant
\* with the port and an empty coordinate.
C9_TargetSelection ==
    pc \notin {"args", "genctx"} =>
        /\ Cardinality(ctx[ctxKeyArkContainerRuntimeInfo]) = 1
        /\ \A rt \in ctx[ctxKeyArkContainerRuntimeInfo] :
              /\ rt.Port = portFlag
              /\ podFlag # <<>> => (rt.RunType = "k8s" /\ rt.Coordinate = podFlag)
              /\ podFlag = <<>> => (rt.RunType = "local" /\ rt.Coordinate = <<>>)

\* a pod target on a port other than the default one
C9_Witness ==
    /\ pc \notin {"args", "genctx"}
    /\ podFlag = <<"ns/name">>
    /\ portFlag = 8080
    /\ \E rt \in ctx[ctxKeyArkContainerRuntimeInfo] : rt.RunType = "k8s"

\* C10: successful run.  The pipeline is Succeeded exactly when the four
\* stages have returned success; then the service calls are UnInstallBiz
\* followed by InstallBiz, one of each, both with the module descriptor the
\* context holds and with the runtime target of the context.
C10_SuccessfulRun ==
    /\ status = "Succeeded" <=> (\A i \in 0..3 : Returned(i, TRUE))
    /\ status = "Succeeded" =>
          /\ Len(calls) = 2
          /\ calls[1].op = "UnInstallBiz"
          /\ calls[2].op = "InstallBiz"
          /\ \A c \in 1..2 :
                /\ ctx[ctxKeyBizModel] = {calls[c].BizModel}
                /\ ctx[ctxKeyArkContainerRuntimeInfo] = {calls[c].TargetContainer}
                /\ calls[c].TargetContainer.Port = portFlag
                /\ calls[c].TargetContainer.Coordinate = podFlag

\* a run in which all four stages succeeded
C10_Witness ==
    /\ status = "Succeeded"
    /\ Len(calls) = 2
    /\ Len(parsed) = 1

\* C11: output drained before completion (the claim as stated).  For a
\* subprocess that exited with status 0 the completion signal carries no
\* error, and once it has fired every line the subprocess wrote has been
\* printed by the output goroutine.
C11_DrainedBeforeCompletion ==
    (proc = "exited" /\ exitErr = NilErr /\ sig # <<>>) =>
        /\ sig = <<NilErr>>
        /\ printed = emitted

\* C12: flag resolution.  After Args, doLocalBuildBundle is true exactly
\* when --bundle was not given, whatever --build is; with neither flag the
\* build directory is the working directory; and from then on no step changes
\* doLocalBuildBundle or the build directory.
C12_FlagResolution ==
    /\ [](pc # "args" =>
            /\ doLocalBuildBundle <=> ~bundleChanged
            /\ (~bundleChanged /\ ~buildChanged) => buildFlag = <<"/cwd">>)
    /\ [][pc # "args" =>
            (doLocalBuildBundle' = doLocalBuildBundle /\ buildFlag' = buildFlag)]_vars

\* a finished run that was given neither --bundle nor --build
C12_Witness ==
    /\ pc = "done"
    /\ ~bundleChanged
    /\ ~buildChanged
    /\ doLocalBuildBundle
    /\ buildFlag = <<"/cwd">>

\* C13: the pipeline thread blocks on the completion signal.  In build
\* mode the thread is past <-mvn.Wait(), the Build stage has returned or the
\* Resolve stage has started or searched only if the signal has fired.
C13_BlocksOnCompletion ==
    (/\ doLocalBuildBundle
     /\ \/ pc = "build_exit"
        \/ Returned(0, TRUE)
        \/ Returned(0, FALSE)
        \/ Started(1)
        \/ searched) => sig # <<>>

\* the search of the build directory has run after the signal fired
C13_Witness ==
    /\ doLocalBuildBundle
    /\ searched
    /\ Returned(0, TRUE)
    /\ sig # <<>>

\* C14: several matching artifacts.  After a search that met matching
\* files, the locator handed to the parser is file:// followed by the path of
\* the last of them in the order of the walk.
C14_LastMatch ==
    (searched /\ ArkBizFiles # {}) =>
        LET last == CHOOSE i \in ArkBizFiles : \A k \in ArkBizFiles : k <= i IN
        parsed = << <<"file://">> \o WalkedDir \o <<"/">> \o walked[last].name >>

\* two matching files were met, the locator is the second one
C14_Witness ==
    /\ searched
    /\ Cardinality(ArkBizFiles) = 2
    /\ Len(parsed) = 1
    /\ \E i \in ArkBizFiles :
          /\ \A k \in ArkBizFiles : k <= i
          /\ HasSuffix(parsed[1], walked[i].name)

\* C15: an explicit bundle bypasses the search.  When --bundle was given
\* no walk is performed, and once Resolve has called the parser the only
\* locator handed to it is the --bundle value.
C15_BundleBypassesSearch ==
    (pc # "args" /\ ~doLocalBuildBundle) =>
        /\ ~searched
        /\ walked = <<>>
        /\ parsed \in {<<>>, <<bundleFlag>>}
        /\ (Returned(1, TRUE) \/ Returned(1, FALSE)) => parsed = <<bundleFlag>>

\* Resolve has handed the supplied bundle to the parser
C15_Witness ==
    /\ ~doLocalBuildBundle
    /\ bundleChanged
    /\ ~searched
    /\ parsed = <<bundleFlag>>
    /\ Started(2)

PutKeys == { puts[i] : i \in 1..Len(puts) }

\* C16: context key discipline.  The keys are written in the order service
\* handle, runtime target (both by generateContext), module descriptor (by a
\* Resolve that returned success), each at most once; a key is present
\* exactly when it was written; Uninstall and Install run only with all three
\* present, and the missing-key panic is never reached.
C16_KeyDiscipline ==
    /\ status # "Panicked"
    /\ puts \in { <<>>,
                  <<"ark.Service", "ark.ContainerRuntimeInfo">>,
                  <<"ark.Service", "ark.ContainerRuntimeInfo", "ark.BizModel">> }
    /\ \A k \in CtxKeys : (ctx[k] # {}) <=> (k \in PutKeys)
    /\ (puts # <<>>) <=> (pc \notin {"args", "genctx"})
    /\ ("ark.BizModel" \in PutKeys) <=> Returned(1, TRUE)
    /\ pc \in {"uninstall", "install"} => \A k \in CtxKeys : ctx[k] # {}

\* Install is about to read the three keys
C16_Witness ==
    /\ pc = "install"
    /\ Len(puts) = 3
    /\ \A k \in CtxKeys : ctx[k] # {}

\* C17: the runtime target is frozen.  After generateContext no step
\* changes the stored runtime-target descriptor, the port or the pod
\* coordinate, and the target passed to InstallBiz is the stored one.
C17_TargetFrozen ==
    /\ [][pc \notin {"args", "genctx"} =>
            /\ ctx'[ctxKeyArkContainerRuntimeInfo] = ctx[ctxKeyArkContainerRuntimeInfo]
            /\ portFlag' = portFlag
            /\ podFlag' = podFlag]_vars
    /\ [](\A c \in 1..Len(calls) :
            calls[c].op = "InstallBiz" =>
                /\ ctx[ctxKeyArkContainerRuntimeInfo] = {calls[c].TargetContainer}
                /\ calls[c].TargetContainer.Port = portFlag
                /\ calls[c].TargetContainer.Coordinate = podFlag)

\* InstallBiz was called for a pod target
C17_Witness ==
    /\ podFlag # <<>>
    /\ \E c \in 1..Len(calls) :
          /\ calls[c].op = "InstallBiz"
          /\ calls[c].TargetContainer.RunType = "k8s"

CallsOf(op) == { c \in 1..Len(calls) : calls[c].op = op }

\* C18: no rollback, no retry.  After a failed UninstallBiz the pipeline
\* is Aborted at stage 2 and the only service call is that UninstallBiz;
\* after a failed InstallBiz it is Aborted at stage 3 and the calls are one
\* UninstallBiz and one InstallBiz; no operation is ever called twice.
C18_NoRetryNoRollback ==
    /\ Returned(2, FALSE) =>
          /\ status = "Aborted" /\ abortedAt = 2 /\ pc = "done"
          /\ Len(calls) = 1
          /\ calls[1].op = "UnInstallBiz"
    /\ Returned(3, FALSE) =>
          /\ status = "Aborted" /\ abortedAt = 3 /\ pc = "done"
          /\ Len(calls) = 2
          /\ calls[1].op = "UnInstallBiz"
          /\ calls[2].op = "InstallBiz"
    /\ Cardinality(CallsOf("UnInstallBiz")) <= 1
    /\ Cardinality(CallsOf("InstallBiz")) <= 1

\* InstallBiz failed after a successful UninstallBiz
C18_Witness ==
    /\ Returned(2, TRUE)
    /\ Returned(3, FALSE)
    /\ abortedAt = 3
    /\ Len(calls) = 2

\* C19: a failed Resolve leaves the context unchanged.  The step in which
\* Resolve returns failure changes no context entry and writes no key, and
\* after it the module descriptor is absent while the service handle and the
\* runtime target are present.
C19_ResolveFailureKeepsContext ==
    /\ [][(pc = "resolve" /\ status' = "Aborted") =>
            (ctx' = ctx /\ puts' = puts)]_vars
    /\ [](Returned(1, FALSE) =>
            /\ ctx[ctxKeyBizModel] = {}
            /\ ctx[ctxKeyArkService] # {}
            /\ ctx[ctxKeyArkContainerRuntimeInfo] # {}
            /\ Len(puts) = 2)

\* the parser was called and Resolve returned failure
C19_Witness ==
    /\ Returned(1, FALSE)
    /\ Len(parsed) = 1
    /\ abortedAt = 1

\* C20: termination (the claim as stated).  Every run eventually reaches
\* Succeeded or Aborted with the pipeline thread finished.
C20_Terminates ==
    <>(status \in {"Succeeded", "Aborted"} /\ pc = "done")

====
